---- MODULE Spec2Model ----
(***************************************************************************)
(* Model of app.py: the Streamlit button handler, download_until_target    *)
(* and the helpers they use.                                               *)
(*                                                                         *)
(* Strings are sequences of one-character strings.  min_fraction is kept   *)
(* in hundredths (66 stands for 0.66).  The download directory is          *)
(* abstracted to the number of image files beneath it, which is all that   *)
(* download_until_target observes (through count_images).                  *)
(***************************************************************************)
EXTENDS Integers, Sequences, FiniteSets, TLC

VARIABLES
    pc,              \* position of the run
    query,           \* st.text_input value
    limit,           \* st.number_input value (target)
    min_fraction,    \* st.slider value, in hundredths
    max_rounds,      \* st.slider value
    fprod,           \* int(target * min_fraction) as double arithmetic yields it
    q,               \* safe_name(query)
    tmpdir,          \* TRUE while the directory made by mkdtemp exists
    tmpCreated,      \* TRUE once mkdtemp has run
    dirExists,       \* TRUE while download_dir exists
    disk,            \* number of image files beneath download_dir
    r,               \* loop variable of download_until_target
    offset,
    last_count,
    stagnant_rounds,
    batch,
    ret,             \* value returned by download_until_target
    got,             \* handler's copy of the returned pair
    msgs,            \* messages shown to the user, in order
    zipCalled,       \* make_zip_from_folder has been called
    offered,         \* st.download_button has been rendered
    fault,           \* an exception is propagating out of the handler
    calls,           \* log of crawler.crawl calls: offset, max_num, images added
    tree,            \* entries beneath a folder given to the helpers
    counted,         \* result of count_images on it
    archive,         \* entries written by make_zip_from_folder
    extracted        \* entries beneath the folder the archive is extracted to

vars == <<pc, query, limit, min_fraction, max_rounds, fprod, q, tmpdir,
          tmpCreated, dirExists, disk, r, offset, last_count,
          stagnant_rounds, batch, ret, got, msgs, zipCalled, offered,
          fault, calls, tree, counted, archive, extracted>>

fsVars == <<tree, counted, archive, extracted>>

(* no folder has been handed to the helpers on their own *)
FsIdle ==
    /\ tree = {}
    /\ counted = -1
    /\ archive = {}
    /\ extracted = {}

----------------------------------------------------------------------------
(* Bounds of the model *)

MaxTarget == 4
MaxRounds == 6
MaxYield == 2
MaxInitDisk == 1
MaxLen == 4
MaxEntries == 4

(* Program constants *)

LimitMin == 1
LimitMax == 300
FractionMin == 50
FractionMax == 100
RoundsMin == 3
RoundsMax == 20
RoundBatchSize == 80
BatchFloor == 30
GoodEnoughRounds == 3
BreakRounds == 4

----------------------------------------------------------------------------
(* Arithmetic helpers *)

Max(a, b) == IF a >= b THEN a ELSE b

Min(a, b) == IF a <= b THEN a ELSE b

----------------------------------------------------------------------------
(* safe_name *)

WordChars == {"a", "b", "q", "u", "e", "r", "y", "7", "_"}

SpaceChars == {" ", "\t"}

Fallback == <<"q", "u", "e", "r", "y">>

RECURSIVE LStrip(_)
LStrip(s) ==
    IF s # <<>> /\ Head(s) \in SpaceChars THEN LStrip(Tail(s)) ELSE s

RECURSIVE RStrip(_)
RStrip(s) ==
    IF s # <<>> /\ s[Len(s)] \in SpaceChars
    THEN RStrip(SubSeq(s, 1, Len(s) - 1))
    ELSE s

Strip(s) == RStrip(LStrip(s))

KeptChar(c) == c \in WordChars \/ c \in SpaceChars \/ c = "-"

RECURSIVE RemoveUnsafe(_)
RemoveUnsafe(s) ==
    IF s = <<>> THEN <<>>
    ELSE IF KeptChar(Head(s)) THEN <<Head(s)>> \o RemoveUnsafe(Tail(s))
    ELSE RemoveUnsafe(Tail(s))

(* mutant: runs of whitespace left as they are *)
CollapseSpaces_Keep(s) == s

RECURSIVE CollapseSpaces(_)
CollapseSpaces(s) ==
    IF s = <<>> THEN <<>>
    ELSE IF Head(s) \in SpaceChars
    THEN <<" ">> \o CollapseSpaces(LStrip(s))
    ELSE <<Head(s)>> \o CollapseSpaces(Tail(s))

safe_name(s) ==
    LET s1 == Strip(s)
        s2 == RemoveUnsafe(s1)
        s3 == Strip(CollapseSpaces(s2))
    IN  IF s3 # <<>> THEN s3 ELSE Fallback

----------------------------------------------------------------------------
(* count_images, as far as the abstraction of the directory allows: 0 for a
   missing directory, else the number of image files beneath it *)

count_images(exists, images) == IF ~exists THEN 0 ELSE images

----------------------------------------------------------------------------
(* download_until_target *)

NoRet == [got |-> -1, exact |-> FALSE]

Fractions == {FractionMin, 66, FractionMax}

(* int(target * min_fraction): the product is computed in double precision
   and truncated.  A product with a fractional part is at least 0.01 away
   from the next integer, so truncation gives its floor.  When the exact
   product is an integer and min_fraction is not a binary fraction, the
   double product may fall just below it (int(100 * 0.57) = 56), depending
   on the double the slider delivers: both outcomes are kept. *)
IntProduct(target, pct) ==
    LET exact == (target * pct) \div 100
    IN  IF (target * pct) % 100 = 0 /\ pct \notin {50, 75, 100}
        THEN {exact - 1, exact}
        ELSE {exact}

min_needed == Max(1, fprod)

(* mutant: the target test made strict *)
TargetReached_Strict(current, target) == current > target

TargetReached(current, target) == current >= target

StagnantNext(current, last, stag) == IF current = last THEN stag + 1 ELSE 0

LastCountNext(current, last) == IF current = last THEN last ELSE current

(* mutant: the good-enough exit one stagnant round late *)
GoodEnough_Late(stag, current, needed) ==
    stag >= GoodEnoughRounds + 1 /\ current >= needed

GoodEnough(stag, current, needed) ==
    stag >= GoodEnoughRounds /\ current >= needed

(* mutant: the stagnation break one stagnant round late *)
ShouldBreak_Late(stag, current, needed) ==
    stag >= BreakRounds + 1 /\ current < needed

ShouldBreak(stag, current, needed) ==
    stag >= BreakRounds /\ current < needed

(* mutant: the per-round cap dropped *)
BatchSize_NoCap(target, current) ==
    LET remaining == target - current
    IN  Max(BatchFloor, remaining * 2)

(* mutant: the remaining count halved instead of doubled *)
BatchSize_Halved(target, current) ==
    LET remaining == target - current
    IN  Min(RoundBatchSize, Max(BatchFloor, remaining \div 2))

BatchSize(target, current) ==
    LET remaining == target - current
    IN  Min(RoundBatchSize, Max(BatchFloor, remaining * 2))

(* mutant: the offset advanced by the images that arrived *)
OffsetNext_ByAdded(off, b, added) == off + added

OffsetNext(off, b, added) == off + b

(* mutant: one round too many *)
LoopExhausted_OffByOne(rr, mr) == rr > mr + 1

LoopExhausted(rr, mr) == rr > mr

(* lines 49-60: the state of the function at the head of its first round *)
EnterLoop ==
    /\ r' = 1
    /\ offset' = 0
    /\ last_count' = 0
    /\ stagnant_rounds' = 0
    /\ batch' = 0
    /\ ret' = NoRet
    /\ calls' = <<>>

handlerVars == <<query, limit, min_fraction, max_rounds, fprod, fsVars, q,
                 tmpdir,
                 tmpCreated, got, msgs, zipCalled, offered, fault>>

(* lines 63-65: the count scanned at the head of the round has reached the
   target *)
RoundTargetReached ==
    /\ pc = "round"
    /\ LET current == count_images(dirExists, disk)
       IN  /\ TargetReached(current, limit)
           /\ ret' = [got |-> current, exact |-> TRUE]
    /\ pc' = "decide"
    /\ UNCHANGED <<handlerVars, dirExists, disk, r, offset, last_count,
                   stagnant_rounds, batch, calls>>

(* lines 63-75: stagnation with at least min_needed images *)
RoundGoodEnough ==
    /\ pc = "round"
    /\ LET current == count_images(dirExists, disk)
           stag == StagnantNext(current, last_count, stagnant_rounds)
       IN  /\ ~TargetReached(current, limit)
           /\ GoodEnough(stag, current, min_needed)
           /\ stagnant_rounds' = stag
           /\ last_count' = LastCountNext(current, last_count)
           /\ ret' = [got |-> current, exact |-> FALSE]
    /\ pc' = "decide"
    /\ UNCHANGED <<handlerVars, dirExists, disk, r, offset, batch, calls>>

(* lines 63-77: stagnation below min_needed leaves the loop *)
RoundBreak ==
    /\ pc = "round"
    /\ LET current == count_images(dirExists, disk)
           stag == StagnantNext(current, last_count, stagnant_rounds)
       IN  /\ ~TargetReached(current, limit)
           /\ ~GoodEnough(stag, current, min_needed)
           /\ ShouldBreak(stag, current, min_needed)
           /\ stagnant_rounds' = stag
           /\ last_count' = LastCountNext(current, last_count)
    /\ pc' = "final"
    /\ UNCHANGED <<handlerVars, dirExists, disk, r, offset, batch, ret,
                   calls>>

(* lines 63-81: the round goes on to request a batch *)
RoundRequest ==
    /\ pc = "round"
    /\ LET current == count_images(dirExists, disk)
           stag == StagnantNext(current, last_count, stagnant_rounds)
       IN  /\ ~TargetReached(current, limit)
           /\ ~GoodEnough(stag, current, min_needed)
           /\ ~ShouldBreak(stag, current, min_needed)
           /\ stagnant_rounds' = stag
           /\ last_count' = LastCountNext(current, last_count)
           /\ batch' = BatchSize(limit, current)
    /\ pc' = "crawl"
    /\ UNCHANGED <<handlerVars, dirExists, disk, r, offset, ret, calls>>

(* lines 84-89 and the loop header: the downloader saves between 0 and
   max_num images and returns; the offset advances; the next round starts
   or the loop is exhausted *)
Crawl ==
    /\ pc = "crawl"
    /\ \E added \in 0..Min(batch, MaxYield) :
          /\ disk' = disk + added
          /\ dirExists' = (dirExists \/ added > 0)
          /\ calls' = Append(calls, [keyword |-> q, offset |-> offset,
                                     max_num |-> batch, added |-> added])
          /\ offset' = OffsetNext(offset, batch, added)
    /\ r' = r + 1
    /\ pc' = IF LoopExhausted(r + 1, max_rounds) THEN "final" ELSE "round"
    /\ UNCHANGED <<handlerVars, last_count, stagnant_rounds, batch, ret>>

(* mutant: exact decided by a strict comparison *)
ExactFlag_Strict(final, target) == final > target

(* line 92 *)
ExactFlag(final, target) == final >= target

(* mutant: the count of the last round head returned without a re-scan *)
Final_Stale ==
    /\ pc = "final"
    /\ ret' = [got |-> last_count, exact |-> ExactFlag(last_count, limit)]
    /\ pc' = "decide"
    /\ UNCHANGED <<handlerVars, dirExists, disk, r, offset, last_count,
                   stagnant_rounds, batch, calls>>

(* lines 91-92 *)
Final ==
    /\ pc = "final"
    /\ LET final == count_images(dirExists, disk)
       IN  ret' = [got |-> final, exact |-> ExactFlag(final, limit)]
    /\ pc' = "decide"
    /\ UNCHANGED <<handlerVars, dirExists, disk, r, offset, last_count,
                   stagnant_rounds, batch, calls>>

(* download_until_target called on its own: any target, fraction, number of
   rounds and starting directory *)
LoopInit ==
    /\ pc = "round"
    /\ query = <<"a">>
    /\ q = <<"a">>
    /\ limit \in 1..MaxTarget
    /\ min_fraction \in Fractions
    /\ max_rounds \in 1..MaxRounds
    /\ fprod \in IntProduct(limit, min_fraction)
    /\ tmpdir = TRUE
    /\ tmpCreated = TRUE
    /\ dirExists \in BOOLEAN
    /\ disk \in 0..MaxInitDisk
    /\ (~dirExists => disk = 0)
    /\ r = 1
    /\ offset = 0
    /\ last_count = 0
    /\ stagnant_rounds = 0
    /\ batch = 0
    /\ ret = NoRet
    /\ got = NoRet
    /\ msgs = <<>>
    /\ zipCalled = FALSE
    /\ offered = FALSE
    /\ fault = FALSE
    /\ calls = <<>>
    /\ FsIdle

LoopNext ==
    \/ RoundTargetReached
    \/ RoundGoodEnough
    \/ RoundBreak
    \/ RoundRequest
    \/ Crawl
    \/ Final

LoopSpec == LoopInit /\ [][LoopNext]_vars

(* every crawl call returns, and the interpreter keeps running *)
LoopFair == LoopSpec /\ WF_vars(LoopNext)

----------------------------------------------------------------------------
(* The button handler, lines 105-158 *)

Queries ==
    { <<>>,
      <<" ">>,
      <<"!", "?">>,
      <<"a">>,
      <<" ", "a", "!", "\t", " ", "b", " ">>,
      <<"-">>,
      <<"q", "u", "e", "r", "y">>,
      <<"q", "u", "e", "r", "y", "!">> }

(* mutant: the comparison with the fallback token dropped *)
InvalidTerm_EmptyOnly(s) == s = <<>>

(* line 108 *)
InvalidTerm(s) == s = <<>> \/ s = Fallback

(* mutant: no try/finally, an exception leaves the handler at once *)
OnException_NoFinally == "done"

(* lines 117 and 157: an exception raised inside the try block (a fault, or
   the StopException of st.stop()) runs the finally clause on its way out *)
OnException == "finally"

(* mutant: the zero test never true *)
NoImages_Never(n) == n < 0

(* line 131 *)
NoImages(n) == n = 0

Init ==
    /\ pc = "idle"
    /\ query \in Queries
    /\ limit \in LimitMin..Min(MaxTarget, LimitMax)
    /\ min_fraction \in Fractions
    /\ max_rounds \in RoundsMin..Min(MaxRounds, RoundsMax)
    /\ fprod \in IntProduct(limit, min_fraction)
    /\ q = <<>>
    /\ tmpdir = FALSE
    /\ tmpCreated = FALSE
    /\ dirExists = FALSE
    /\ disk = 0
    /\ r = 0
    /\ offset = 0
    /\ last_count = 0
    /\ stagnant_rounds = 0
    /\ batch = 0
    /\ ret = NoRet
    /\ got = NoRet
    /\ msgs = <<>>
    /\ zipCalled = FALSE
    /\ offered = FALSE
    /\ fault = FALSE
    /\ calls = <<>>
    /\ FsIdle

(* lines 105-110: the term is rejected, st.error and st.stop() *)
ClickInvalid ==
    /\ pc = "idle"
    /\ q' = safe_name(query)
    /\ InvalidTerm(q')
    /\ msgs' = Append(msgs, "error_invalid")
    /\ pc' = "done"
    /\ UNCHANGED <<query, limit, min_fraction, max_rounds, fprod,
                   fsVars, tmpdir,
                   tmpCreated, dirExists, disk, r, offset, last_count,
                   stagnant_rounds, batch, ret, got, zipCalled, offered,
                   fault, calls>>

(* lines 105-127 and 49-60: the term is accepted, the temporary directory
   and download_dir are made and download_until_target is entered *)
ClickValid ==
    /\ pc = "idle"
    /\ q' = safe_name(query)
    /\ ~InvalidTerm(q')
    /\ tmpdir' = TRUE
    /\ tmpCreated' = TRUE
    /\ dirExists' = TRUE
    /\ disk' = 0
    /\ EnterLoop
    /\ pc' = "round"
    /\ UNCHANGED <<query, limit, min_fraction, max_rounds, fprod,
                   fsVars, got, msgs,
                   zipCalled, offered, fault>>

(* line 84 raises: the exception leaves download_until_target and the try
   block *)
CrawlFault ==
    /\ pc = "crawl"
    /\ fault' = TRUE
    /\ pc' = OnException
    /\ UNCHANGED <<query, limit, min_fraction, max_rounds, fprod,
                   fsVars, q, tmpdir,
                   tmpCreated, dirExists, disk, r, offset, last_count,
                   stagnant_rounds, batch, ret, got, msgs, zipCalled,
                   offered, calls>>

(* lines 120-133: nothing was downloaded, st.error and st.stop() *)
DecideZero ==
    /\ pc = "decide"
    /\ got' = ret
    /\ NoImages(ret.got)
    /\ msgs' = Append(msgs, "error_none")
    /\ pc' = OnException
    /\ UNCHANGED <<query, limit, min_fraction, max_rounds, fprod,
                   fsVars, q, tmpdir,
                   tmpCreated, dirExists, disk, r, offset, last_count,
                   stagnant_rounds, batch, ret, zipCalled, offered, fault,
                   calls>>

(* lines 120-138: fewer than min_needed images, st.warning, and on *)
DecideWarn ==
    /\ pc = "decide"
    /\ got' = ret
    /\ ~NoImages(ret.got)
    /\ ret.got < min_needed
    /\ msgs' = Append(msgs, "warning")
    /\ pc' = "zip"
    /\ UNCHANGED <<query, limit, min_fraction, max_rounds, fprod,
                   fsVars, q, tmpdir,
                   tmpCreated, dirExists, disk, r, offset, last_count,
                   stagnant_rounds, batch, ret, zipCalled, offered, fault,
                   calls>>

(* lines 120-134: at least min_needed images, no message yet *)
DecideEnough ==
    /\ pc = "decide"
    /\ got' = ret
    /\ ~NoImages(ret.got)
    /\ ~(ret.got < min_needed)
    /\ pc' = "zip"
    /\ UNCHANGED <<query, limit, min_fraction, max_rounds, fprod,
                   fsVars, q, tmpdir,
                   tmpCreated, dirExists, disk, r, offset, last_count,
                   stagnant_rounds, batch, ret, msgs, zipCalled, offered,
                   fault, calls>>

(* lines 140-143: the archive is written and read back *)
Zip ==
    /\ pc = "zip"
    /\ zipCalled' = TRUE
    /\ pc' = "show"
    /\ UNCHANGED <<query, limit, min_fraction, max_rounds, fprod,
                   fsVars, q, tmpdir,
                   tmpCreated, dirExists, disk, r, offset, last_count,
                   stagnant_rounds, batch, ret, got, msgs, offered, fault,
                   calls>>

(* lines 140-143 raise *)
ZipFault ==
    /\ pc = "zip"
    /\ zipCalled' = TRUE
    /\ fault' = TRUE
    /\ pc' = OnException
    /\ UNCHANGED <<query, limit, min_fraction, max_rounds, fprod,
                   fsVars, q, tmpdir,
                   tmpCreated, dirExists, disk, r, offset, last_count,
                   stagnant_rounds, batch, ret, got, msgs, offered, calls>>

(* lines 145-155: st.success and st.download_button *)
Show ==
    /\ pc = "show"
    /\ msgs' = Append(msgs, IF got.exact THEN "success_exact"
                                         ELSE "success_minimum")
    /\ offered' = TRUE
    /\ pc' = "finally"
    /\ UNCHANGED <<query, limit, min_fraction, max_rounds, fprod,
                   fsVars, q, tmpdir,
                   tmpCreated, dirExists, disk, r, offset, last_count,
                   stagnant_rounds, batch, ret, got, zipCalled, fault,
                   calls>>

(* line 158: shutil.rmtree(tmpdir) *)
Finally ==
    /\ pc = "finally"
    /\ tmpdir' = FALSE
    /\ dirExists' = FALSE
    /\ disk' = 0
    /\ pc' = "done"
    /\ UNCHANGED <<query, limit, min_fraction, max_rounds, fprod,
                   fsVars, q,
                   tmpCreated, r, offset, last_count, stagnant_rounds, batch,
                   ret, got, msgs, zipCalled, offered, fault, calls>>

Next ==
    \/ ClickInvalid
    \/ ClickValid
    \/ RoundTargetReached
    \/ RoundGoodEnough
    \/ RoundBreak
    \/ RoundRequest
    \/ Crawl
    \/ CrawlFault
    \/ Final
    \/ DecideZero
    \/ DecideWarn
    \/ DecideEnough
    \/ Zip
    \/ ZipFault
    \/ Show
    \/ Finally

Spec == Init /\ [][Next]_vars

----------------------------------------------------------------------------
(* Observers used by the properties *)

(* number of most recent consecutive crawl calls that added no image *)
RECURSIVE IdleCalls(_)
IdleCalls(log) ==
    IF log = <<>> \/ log[Len(log)].added > 0 THEN 0
    ELSE 1 + IdleCalls(SubSeq(log, 1, Len(log) - 1))

(* sum of the batch sizes requested in the first k calls *)
RECURSIVE SumBatches(_, _)
SumBatches(log, k) ==
    IF k = 0 THEN 0 ELSE log[k].max_num + SumBatches(log, k - 1)

Scanned == count_images(dirExists, disk)

Returned == ret # NoRet

----------------------------------------------------------------------------
(* Properties of download_until_target *)

(* C1: whenever the count scanned at the head of a round is at least the
   target, that step returns (count, exact = TRUE) without a crawl call, and
   after any return no crawl call is issued and the result stays. *)
C1_TargetReachedReturns ==
    [][ /\ (pc = "round" /\ Scanned >= limit)
              => /\ pc' = "decide"
                 /\ ret' = [got |-> Scanned, exact |-> TRUE]
                 /\ calls' = calls
        /\ Returned => (calls' = calls /\ ret' = ret) ]_vars

(* C1 witness: the function has returned exact at the head of a round, with
   rounds remaining, after at least one crawl call. *)
C1_Witness ==
    /\ Returned
    /\ ret.exact
    /\ ret.got >= limit
    /\ r <= max_rounds
    /\ Len(calls) >= 1

(* C2: when a round (or the code after the loop) starts with a count c,
   min_needed <= c < target, that the last 3 crawl calls left unchanged,
   the next step returns (c, exact = FALSE) without a crawl call. *)
C2_GoodEnoughReturns ==
    [][ (/\ pc \in {"round", "final"}
         /\ min_needed <= Scanned
         /\ Scanned < limit
         /\ IdleCalls(calls) >= 3)
           => /\ pc' = "decide"
              /\ ret' = [got |-> Scanned, exact |-> FALSE]
              /\ calls' = calls ]_vars

(* C2 witness: returned inexact at the head of a round, rounds remaining,
   count at least min_needed, after exactly 3 idle calls. *)
C2_Witness ==
    /\ Returned
    /\ ~ret.exact
    /\ ret.got >= min_needed
    /\ ret.got < limit
    /\ r <= max_rounds
    /\ IdleCalls(calls) = 3
    /\ Len(calls) > 3

(* C3: when a round starts with a count below min_needed that the last 4
   crawl calls left unchanged, the loop is left without a crawl call, and the
   code after the loop returns the re-scanned count with exact = FALSE; no
   crawl call follows. *)
C3_StagnationBreak ==
    [][ /\ (/\ pc = "round"
            /\ Scanned < min_needed
            /\ IdleCalls(calls) >= 4)
              => (pc' = "final" /\ calls' = calls /\ ret' = NoRet)
        /\ (/\ pc = "final"
            /\ Scanned < min_needed
            /\ IdleCalls(calls) >= 4)
              => /\ pc' = "decide"
                 /\ ret' = [got |-> Scanned, exact |-> FALSE]
                 /\ calls' = calls
        /\ (Returned /\ IdleCalls(calls) >= 4) => calls' = calls ]_vars

(* C3 witness: returned after the break, with rounds remaining, a count
   above 0 and below min_needed, and 4 idle calls. *)
C3_Witness ==
    /\ Returned
    /\ ~ret.exact
    /\ ret.got > 0
    /\ ret.got < min_needed
    /\ r <= max_rounds
    /\ IdleCalls(calls) = 4

(* C4: the function issues at most max_rounds crawl calls and, every call
   returning, eventually returns. *)
C4_BoundedAndTerminates ==
    /\ [](Len(calls) <= max_rounds)
    /\ <>Returned

(* C4 witness: returned after using every one of several rounds. *)
C4_Witness ==
    /\ Returned
    /\ max_rounds >= 3
    /\ Len(calls) = max_rounds

(* C5: the offset passed to the k-th call is the sum of the batch sizes of
   the calls before it, each batch is positive, so the offsets strictly
   increase and the slices [offset, offset + max_num) of successive calls are
   contiguous; the running offset is the sum of all batches requested. *)
C5_OffsetIsSumOfBatches ==
    /\ \A k \in 1..Len(calls) :
          /\ calls[k].offset = SumBatches(calls, k - 1)
          /\ calls[k].max_num > 0
    /\ \A k \in 2..Len(calls) :
          /\ calls[k].offset > calls[k - 1].offset
          /\ calls[k].offset = calls[k - 1].offset + calls[k - 1].max_num
    /\ offset = SumBatches(calls, Len(calls))

(* C5 witness: several calls, some adding images and some adding none. *)
C5_Witness ==
    /\ Len(calls) >= 3
    /\ \E k \in 1..Len(calls) : calls[k].added = 0
    /\ \E k \in 1..Len(calls) : calls[k].added > 0
    /\ offset > 0

----------------------------------------------------------------------------
(* Properties of the button handler *)

Shown == {msgs[i] : i \in 1..Len(msgs)}

Kind(m) ==
    IF m \in {"error_invalid", "error_none"} THEN "error"
    ELSE IF m = "warning" THEN "warning"
    ELSE "success"

(* ceiling of target * min_fraction, min_fraction in hundredths *)
CeilProduct(target, pct) == (target * pct + 99) \div 100

(* no character of the term is a word character or a hyphen *)
NothingSurvives(s) ==
    \A i \in 1..Len(s) : s[i] \notin WordChars /\ s[i] # "-"

(* C6: the threshold used by download_until_target and by the handler is the
   ceiling of target x min_fraction, at least 1.  (Violated: the code
   truncates the product.) *)
C6_MinNeededIsCeiling ==
    r >= 1 => min_needed = Max(1, CeilProduct(limit, min_fraction))

(* C7: a finished run has no temporary directory left, whichever way it
   ended, and a run rejected for its search term never made one. *)
C7_TmpdirRemoved ==
    /\ pc = "done" => ~tmpdir
    /\ tmpdir => tmpCreated
    /\ "error_invalid" \in Shown => ~tmpCreated

(* C7 witness: a run that made the directory and ended by a fault of the
   archive builder, the directory gone. *)
C7_Witness ==
    /\ pc = "done"
    /\ tmpCreated
    /\ ~tmpdir
    /\ fault
    /\ zipCalled

(* C8: a run shows at most one message, and a run whose loop returned and
   that ended without a fault shows exactly the one its count calls for:
   error for 0, warning below min_needed, success otherwise.  (Violated: a
   count below min_needed shows the warning and then the success.) *)
C8_ExactlyOneMessage ==
    /\ Len(msgs) <= 1
    /\ (pc = "done" /\ got # NoRet /\ ~fault)
          => /\ Len(msgs) = 1
             /\ Kind(msgs[1]) = IF got.got = 0 THEN "error"
                                ELSE IF got.got < min_needed THEN "warning"
                                ELSE "success"

(* C9: make_zip_from_folder is called exactly when the count returned by the
   loop is above 0: never for 0, where the run reports the error, and always
   for more, where the archive is offered unless the builder faults. *)
C9_ZipIffImages ==
    /\ zipCalled => (got # NoRet /\ got.got > 0)
    /\ offered => zipCalled
    /\ (got # NoRet /\ got.got = 0)
          => (~zipCalled /\ ~offered /\ msgs = <<"error_none">>)
    /\ (got # NoRet /\ got.got > 0 /\ pc \in {"show", "finally", "done"})
          => zipCalled
    /\ (got # NoRet /\ got.got > 0 /\ pc = "done" /\ ~fault) => offered

(* C9 witness: a finished run with a count above 0 and below min_needed,
   its archive built and offered. *)
C9_Witness ==
    /\ pc = "done"
    /\ got # NoRet
    /\ got.got > 0
    /\ got.got < min_needed
    /\ zipCalled
    /\ offered

(* C10: once the button is pressed with a term of which nothing survives
   sanitizing, the run has ended with the invalid-term error and nothing
   else: no temporary directory, download_until_target not entered, no crawl
   call. *)
C10_EmptyTermRejected ==
    (NothingSurvives(query) /\ pc # "idle")
       => /\ pc = "done"
          /\ msgs = <<"error_invalid">>
          /\ ~tmpCreated
          /\ r = 0
          /\ ret = NoRet
          /\ calls = <<>>

(* C10 witness: a non-empty term of punctuation only has been rejected. *)
C10_Witness ==
    /\ pc = "done"
    /\ query # <<>>
    /\ NothingSurvives(query)
    /\ msgs = <<"error_invalid">>

----------------------------------------------------------------------------
(* Further properties of download_until_target *)

(* C16: whichever way the function returned, exact is TRUE exactly when the
   returned count is at least the target. *)
C16_ExactIffTargetMet ==
    Returned => (ret.exact <=> ret.got >= limit)

(* C16 witness: the loop ran out of rounds and the final re-scan found the
   target met. *)
C16_Witness ==
    /\ Returned
    /\ ret.exact
    /\ ret.got >= limit
    /\ r > max_rounds
    /\ Len(calls) = max_rounds

(* C17: the returned count is the count on disk at the return, and the step
   that returns issues no crawl call. *)
C17_ReturnedCountIsOnDisk ==
    [][ (~Returned /\ Returned')
           => (ret'.got = Scanned' /\ calls' = calls /\ disk' = disk) ]_vars

(* C17 witness: the last round's call added images and the function then
   returned the re-scanned count, which differs from the count seen at the
   head of that round. *)
C17_Witness ==
    /\ Returned
    /\ r > max_rounds
    /\ Len(calls) >= 1
    /\ calls[Len(calls)].added > 0
    /\ ret.got = count_images(dirExists, disk)
    /\ ret.got # last_count

(* C18: the loop is left by the stagnation break, rounds remaining, only
   after at least 4 consecutive crawl calls that added nothing.  (Violated:
   last_count starts at 0, so an empty directory makes round 1 count as
   stagnant and the break comes after 3 calls.) *)
C18_BreakAfterFourIdleCalls ==
    (pc = "final" /\ r <= max_rounds) => IdleCalls(calls) >= 4

----------------------------------------------------------------------------
(* Further properties of the button handler *)

(* C19: once the button is pressed with a term of which a word character or
   a hyphen survives sanitizing, the run has not been rejected: the temporary
   directory was made and download_until_target was entered, with the
   sanitized term as keyword of every crawl call.  (Violated: the term
   "query" sanitizes to the fallback token and is rejected.) *)
C19_SanitizableTermAccepted ==
    (~NothingSurvives(query) /\ pc # "idle")
       => /\ "error_invalid" \notin Shown
          /\ tmpCreated
          /\ r >= 1
          /\ q = safe_name(query)
          /\ \A k \in 1..Len(calls) : calls[k].keyword = q

----------------------------------------------------------------------------
(* The batch size over the whole range of the target widget: one round of
   download_until_target, entered with any target of the widget and any
   count below it already on disk *)

BatchInit ==
    /\ pc = "round"
    /\ query = <<"a">>
    /\ q = <<"a">>
    /\ limit \in LimitMin..LimitMax
    /\ min_fraction = 66
    /\ max_rounds = RoundsMin
    /\ fprod \in IntProduct(limit, min_fraction)
    /\ tmpdir = TRUE
    /\ tmpCreated = TRUE
    /\ dirExists = TRUE
    /\ disk \in 0..(limit - 1)
    /\ r = 1
    /\ offset = 0
    /\ last_count = 0
    /\ stagnant_rounds = 0
    /\ batch = 0
    /\ ret = NoRet
    /\ got = NoRet
    /\ msgs = <<>>
    /\ zipCalled = FALSE
    /\ offered = FALSE
    /\ fault = FALSE
    /\ calls = <<>>
    /\ FsIdle

BatchNext == RoundRequest

BatchSpec == BatchInit /\ [][BatchNext]_vars

(* C14: the batch about to be requested is 30 when at most 15 images are
   missing, twice the missing number when that lies between 30 and the cap,
   and the cap otherwise: min(cap, max(30, 2 x missing)); it is positive and
   never above the cap. *)
C14_BatchFormula ==
    pc = "crawl" =>
        LET missing == limit - disk
        IN  /\ batch \in Nat
            /\ batch > 0
            /\ batch <= RoundBatchSize
            /\ (2 * missing <= 30) => batch = 30
            /\ (30 < 2 * missing /\ 2 * missing < RoundBatchSize)
                  => batch = 2 * missing
            /\ (2 * missing >= RoundBatchSize) => batch = RoundBatchSize

(* C14 witness: a batch of twice the missing number, between floor and cap *)
C14_Witness ==
    /\ pc = "crawl"
    /\ batch = 2 * (limit - disk)
    /\ batch > 30
    /\ batch < RoundBatchSize

----------------------------------------------------------------------------
(* safe_name applied to every short string over one character of each kind
   (letter, underscore, hyphen, space, tab, punctuation), and to the terms
   of Queries *)

Chars == {"a", "_", "-", " ", "\t", "!"}

RECURSIVE SeqsOfLen(_)
SeqsOfLen(n) ==
    IF n = 0 THEN {<<>>}
    ELSE {Append(s, c) : s \in SeqsOfLen(n - 1), c \in Chars}

Inputs == UNION {SeqsOfLen(n) : n \in 0..MaxLen} \cup Queries

SafeInit ==
    /\ pc = "typed"
    /\ query \in Inputs
    /\ q = <<>>
    /\ limit = LimitMin
    /\ min_fraction = 66
    /\ max_rounds = RoundsMin
    /\ fprod = 0
    /\ tmpdir = FALSE
    /\ tmpCreated = FALSE
    /\ dirExists = FALSE
    /\ disk = 0
    /\ r = 0
    /\ offset = 0
    /\ last_count = 0
    /\ stagnant_rounds = 0
    /\ batch = 0
    /\ ret = NoRet
    /\ got = NoRet
    /\ msgs = <<>>
    /\ zipCalled = FALSE
    /\ offered = FALSE
    /\ fault = FALSE
    /\ calls = <<>>
    /\ FsIdle

(* line 106: q = safe_name(query) *)
Sanitize ==
    /\ pc = "typed"
    /\ q' = safe_name(query)
    /\ pc' = "sanitized"
    /\ UNCHANGED <<query, limit, min_fraction, max_rounds, fprod,
                   fsVars, tmpdir,
                   tmpCreated, dirExists, disk, r, offset, last_count,
                   stagnant_rounds, batch, ret, got, msgs, zipCalled,
                   offered, fault, calls>>

SafeNext == Sanitize

SafeSpec == SafeInit /\ [][SafeNext]_vars

(* the word characters and hyphens of a string, in order *)
Survivors(s) == SelectSeq(s, LAMBDA c : c \in WordChars \/ c = "-")

(* only word characters, hyphens and single spaces, no space at either end *)
CleanShape(s) ==
    /\ \A i \in 1..Len(s) : s[i] \in WordChars \cup {"-", " "}
    /\ s # <<>> => (s[1] # " " /\ s[Len(s)] # " ")
    /\ \A i \in 1..(Len(s) - 1) : ~(s[i] = " " /\ s[i + 1] = " ")

(* C11 as stated: the result is never empty, is the fallback token exactly
   when no word character or hyphen survives, and otherwise is clean.
   (Violated: the input "query" yields "query" too.) *)
C11_FallbackExactlyWhenNothingSurvives ==
    pc = "sanitized" =>
        /\ q # <<>>
        /\ q = Fallback <=> NothingSurvives(query)
        /\ ~NothingSurvives(query) => CleanShape(q)

(* C11 amended: the result is never empty; it is the fallback token whenever
   no word character or hyphen survives; otherwise it holds exactly the
   surviving word characters and hyphens, in order, separated by single
   spaces where whitespace separated them, with no space at either end (so
   it equals "query" only if the survivors spell it). *)
C11_SafeNameShape ==
    pc = "sanitized" =>
        /\ q # <<>>
        /\ NothingSurvives(query) => q = Fallback
        /\ ~NothingSurvives(query)
              => /\ CleanShape(q)
                 /\ Survivors(q) = Survivors(query)
                 /\ (q = Fallback => Survivors(query) = Fallback)

(* C11 witness: leading, trailing and repeated whitespace and punctuation
   have been removed from a term *)
C11_Witness ==
    /\ pc = "sanitized"
    /\ query = <<" ", "a", "!", "\t", " ", "b", " ">>
    /\ q = <<"a", " ", "b">>

----------------------------------------------------------------------------
(* count_images and make_zip_from_folder on a folder in full: its entries
   are regular files and directories, each with the path of names leading to
   it from the folder; a file carries the extension of its name and its
   contents.  The folder's existence is dirExists. *)

Names == {"a", "b"}

Exts == {".jpg", ".PNG", ".txt"}

Data == {0, 1}

Folder == <<"tmp", "downloads">>

Dest == <<"tmp", "out">>

DirEntry(p) == [path |-> p, kind |-> "dir", ext |-> "", data |-> 0]

FileEntry(p, e, d) == [path |-> p, kind |-> "file", ext |-> e, data |-> d]

Parent(p) == SubSeq(p, 1, Len(p) - 1)

Basename(p) == p[Len(p)]

Files(t) == {e \in t : e.kind = "file"}

(* the directories beneath a folder, the folder itself (<<>>) included *)
Dirs(t) == {<<>>} \cup {e.path : e \in {x \in t : x.kind = "dir"}}

(* line 32 *)
ImageExts == {".jpg", ".jpeg", ".png", ".webp", ".bmp", ".gif", ".tiff"}

(* mutant: the extension compared as it is spelt *)
Lower_Identity(e) == e

(* str.lower() on the extensions of the model *)
Lower(e) ==
    CASE e = ".PNG" -> ".png"
      [] e = ".JPG" -> ".jpg"
      [] OTHER -> e

(* line 33: the files p.rglob("*") yields that pass the filter *)
ImageFiles(t) == {e \in Files(t) : Lower(e.ext) \in ImageExts}

(* os.walk(folder_path): one (root, files) pair per directory *)
Walk(folder, t) ==
    { [root |-> folder \o d,
       files |-> {e \in Files(t) : Parent(e.path) = d}] : d \in Dirs(t) }

(* os.path.join(root, fn) *)
Join(root, fn) == Append(root, fn)

(* os.path.relpath(fp, start), start a prefix of fp *)
RelPath(fp, start) == SubSeq(fp, Len(start) + 1, Len(fp))

(* mutant: the entry named by the file name alone *)
ArcName_Flat(root, fn, folder) == <<fn>>

(* lines 23-24 *)
ArcName(root, fn, folder) == RelPath(Join(root, fn), folder)

(* lines 20-25: the entries written for a folder *)
make_zip_from_folder(folder, exists, t) ==
    IF ~exists THEN {}
    ELSE UNION { { [name |-> ArcName(w.root, Basename(e.path), folder),
                    ext |-> e.ext,
                    data |-> e.data] : e \in w.files } : w \in Walk(folder, t) }

(* the proper non-empty prefixes of a path *)
Ancestors(p) == {SubSeq(p, 1, n) : n \in 1..(Len(p) - 1)}

(* ZipFile.extractall(dest): each entry written at dest joined with its
   name, the directories on the way made; the result relative to dest *)
ExtractAll(dest, arch) ==
    LET written == { [abs |-> dest \o a.name, ext |-> a.ext, data |-> a.data]
                        : a \in arch }
    IN  { FileEntry(RelPath(w.abs, dest), w.ext, w.data) : w \in written }
        \cup UNION { { DirEntry(RelPath(d, dest))
                         : d \in {dest \o x : x \in Ancestors(RelPath(w.abs, dest))} }
                     : w \in written }

FsInit ==
    /\ pc = "fs"
    /\ query = <<"a">>
    /\ q = <<"a">>
    /\ limit = LimitMin
    /\ min_fraction = 66
    /\ max_rounds = RoundsMin
    /\ fprod = 0
    /\ tmpdir = TRUE
    /\ tmpCreated = TRUE
    /\ dirExists \in BOOLEAN
    /\ disk = 0
    /\ r = 0
    /\ offset = 0
    /\ last_count = 0
    /\ stagnant_rounds = 0
    /\ batch = 0
    /\ ret = NoRet
    /\ got = NoRet
    /\ msgs = <<>>
    /\ zipCalled = FALSE
    /\ offered = FALSE
    /\ fault = FALSE
    /\ calls = <<>>
    /\ FsIdle

fsOther == <<query, limit, min_fraction, max_rounds, fprod, q, tmpdir,
             tmpCreated, disk, r, offset, last_count, stagnant_rounds, batch,
             ret, got, msgs, zipCalled, offered, fault, calls>>

FreePath(t, p) ==
    /\ \A e \in t : e.path # p
    /\ Parent(p) \in Dirs(t)
    /\ Cardinality(t) < MaxEntries

(* a file is written beneath the folder (which the write creates) *)
AddFile ==
    /\ pc = "fs"
    /\ \E p \in {<<n>> : n \in Names} \cup {<<m, n>> : m \in Names, n \in Names},
          e \in Exts, d \in Data :
          /\ FreePath(tree, p)
          /\ tree' = tree \cup {FileEntry(p, e, d)}
    /\ dirExists' = TRUE
    /\ UNCHANGED <<pc, fsOther, counted, archive, extracted>>

(* a directory is made beneath the folder *)
AddDir ==
    /\ pc = "fs"
    /\ \E n \in Names :
          /\ FreePath(tree, <<n>>)
          /\ tree' = tree \cup {DirEntry(<<n>>)}
    /\ dirExists' = TRUE
    /\ UNCHANGED <<pc, fsOther, counted, archive, extracted>>

(* lines 28-33: count_images(folder) *)
CountImages ==
    /\ pc = "fs"
    /\ counted' = count_images(dirExists, Cardinality(ImageFiles(tree)))
    /\ pc' = "counted"
    /\ UNCHANGED <<fsOther, dirExists, tree, archive, extracted>>

(* lines 19-25: make_zip_from_folder(folder, zip_path), zip_path outside the
   folder *)
MakeZip ==
    /\ pc = "fs"
    /\ archive' = make_zip_from_folder(Folder, dirExists, tree)
    /\ pc' = "zipped"
    /\ UNCHANGED <<fsOther, dirExists, tree, counted, extracted>>

(* the archive is extracted to an empty folder *)
Extract ==
    /\ pc = "zipped"
    /\ extracted' = ExtractAll(Dest, archive)
    /\ pc' = "extracted"
    /\ UNCHANGED <<fsOther, dirExists, tree, counted, archive>>

FsNext ==
    \/ AddFile
    \/ AddDir
    \/ CountImages
    \/ MakeZip
    \/ Extract

FsSpec == FsInit /\ [][FsNext]_vars

----------------------------------------------------------------------------
(* Properties of the helpers *)

(* C12: for a non-empty folder the archive holds exactly one entry per
   regular file beneath it, at any depth and of any extension, named by the
   file's path relative to the folder and holding its contents; extracting
   the archive yields the same files, by relative path, extension and
   contents. *)
C12_ZipRoundTrip ==
    /\ (pc \in {"zipped", "extracted"} /\ dirExists /\ tree # {})
          => /\ Cardinality(archive) = Cardinality(Files(tree))
             /\ \A f \in Files(tree) :
                   Cardinality({a \in archive : a.name = f.path}) = 1
             /\ \A a \in archive :
                   FileEntry(a.name, a.ext, a.data) \in tree
    /\ (pc = "extracted" /\ dirExists /\ tree # {})
          => Files(extracted) = Files(tree)

(* C12 witness: a folder with a file at the top and a non-image file in a
   sub-directory has been archived and extracted *)
C12_Witness ==
    /\ pc = "extracted"
    /\ \E f \in Files(tree) : Len(f.path) = 2 /\ f.ext = ".txt"
    /\ \E f \in Files(tree) : Len(f.path) = 1
    /\ Files(extracted) = Files(tree)
    /\ Cardinality(archive) >= 2

(* C13: count_images yields 0 for a folder that does not exist and
   otherwise the number of regular files, at any depth, whose extension is
   an image extension in any letter case (".jpg" and ".PNG" among those of
   the model); adding an entry never lowers what it yields. *)
C13_CountImages ==
    [][ /\ pc' = "counted"
           => counted' =
                 IF ~dirExists' THEN 0
                 ELSE Cardinality({e \in tree' : /\ e.kind = "file"
                                                 /\ e.ext \in {".jpg", ".PNG"}})
        /\ (tree' # tree /\ tree \subseteq tree')
           => count_images(dirExists', Cardinality(ImageFiles(tree')))
                 >= count_images(dirExists, Cardinality(ImageFiles(tree))) ]_vars

(* C13 witness: two images counted, one of them with an upper-case
   extension in a sub-directory, beside a file that is no image *)
C13_Witness ==
    /\ pc = "counted"
    /\ counted = 2
    /\ \E f \in Files(tree) : Len(f.path) = 2 /\ f.ext = ".PNG"
    /\ \E f \in Files(tree) : f.ext = ".txt"

====
